---------------------------- MODULE Spec2Model ----------------------------
(***************************************************************************)
(* A model of the Paracon revenue dashboard (app.py).  The script is run   *)
(* top to bottom by Streamlit on every rerun of a session.  The module     *)
(* holds                                                                   *)
(*   - Spec        : the rerun state machine of one session (password gate, *)
(*                   input test, pipeline stages),                         *)
(*   - SpecFindCol : find_col applied to bounded headers and candidates,   *)
(*   - SpecPeriod  : normalize_period applied to bounded raw columns,      *)
(*   - SpecBuild   : the fact builder applied to bounded source tables,    *)
(*   - SpecFilter  : the client/date masks applied to bounded tables,      *)
(*   - SpecKpi     : the KPI sums and the KPI cards,                       *)
(*   - SpecTop     : the top-clients table,                                *)
(*   - SpecAvF     : the actual-vs-forecast table.                         *)
(***************************************************************************)
EXTENDS Integers, Sequences, FiniteSets, TLC

VARIABLES
    pc,             \* position of the running script / of the component applied
    app_password,   \* st.secrets["APP_PASSWORD"] ("" when not configured)
    session_state,  \* st.session_state: a function whose domain is {} or {"_ok"}
    entered,        \* value of the "Password" text input in this rerun
    clicked,        \* whether this rerun was triggered by the "Sign in" button
    mode,           \* value of the "Choose input method" radio
    up1, up2,       \* the two file uploaders: TRUE when a file is present
    RA_DATA_PATH,   \* path of the revenue workbook (path mode)
    FORECAST_PATH,  \* path of the forecast workbook (path mode)
    ran,            \* the script sections executed so far in this rerun
    last_click,     \* history: <<>> or <<password submitted by the latest click>>
    inp,            \* input of the component (component specifications)
    out             \* output of the component (component specifications)

vars == <<pc, app_password, session_state, entered, clicked, mode, up1, up2,
          RA_DATA_PATH, FORECAST_PATH, ran, last_click, inp, out>>

sessionVars == <<app_password, session_state, entered, clicked, mode, up1, up2,
                 RA_DATA_PATH, FORECAST_PATH, ran, last_click>>

\* An optional value is a sequence of length at most one: None, NaN, NaT and
\* NA are the empty sequence Null, a present value v is Some(v).
Null == <<>>
Some(v) == <<v>>
Val(o) == o[1]

\* A script variable that has not been assigned in this rerun.
Unset == "<unset>"

Min(a, b) == IF a <= b THEN a ELSE b

-----------------------------------------------------------------------------
(***************************************************************************)
(* The rerun state machine of one session.                                 *)
(***************************************************************************)

\* Passwords that are configured or typed.
Passwords == {"", "secret", "guess"}

\* Paths typed into the two text inputs, and the ones that exist on disk.
Paths == {"", "missing.xlsx", "data.xlsx"}
ExistingPaths == {"data.xlsx"}
PathExists(p) == p \in ExistingPaths
\* os.getenv("RA_DATA_PATH", "") and os.getenv("FORECAST_PATH", ""): not set
EnvPath == ""

UploadMode == "Upload files"
PathMode == "Use local/server file paths"

\* The sections of the script after the input test, in program order.
PipelineSteps == <<"read_sheets", "build", "filters", "kpis", "charts", "explorer">>
PipelineSet == {PipelineSteps[i] : i \in DOMAIN PipelineSteps}

NoSession == [k \in {} |-> FALSE]

\* st.session_state.get(key, default)
SessionGet(s, k, d) == IF k \in DOMAIN s THEN s[k] ELSE d

\* (a sign-in that never revokes an access once granted)
StickySignIn(s, c, e, pwd) ==
    IF c THEN ("_ok" :> (SessionGet(s, "_ok", FALSE) \/ e = pwd)) ELSE s

\* if st.button("Sign in"): st.session_state["_ok"] = (entered == pwd)
SignIn(s, c, e, pwd) ==
    IF c THEN ("_ok" :> (e = pwd)) ELSE s

\* check_password(): its return value, given the session state after SignIn
check_password(s, pwd) ==
    IF pwd = "" THEN TRUE ELSE SessionGet(s, "_ok", FALSE)

\* (the test with "and" in place of "or": stops only when both are missing)
BothInputsMissing(m, u1, u2, p1, p2) ==
    IF m = UploadMode
    THEN (~u1) /\ (~u2)
    ELSE ~(p1 # "" /\ PathExists(p1)) /\ ~(p2 # "" /\ PathExists(p2))

\* "if not up1 or not up2" (line 66) / the two path tests (lines 83, 86)
InputMissing(m, u1, u2, p1, p2) ==
    IF m = UploadMode
    THEN (~u1) \/ (~u2)
    ELSE ~(p1 # "" /\ PathExists(p1)) \/ ~(p2 # "" /\ PathExists(p2))

Init ==
    /\ pc = "idle"
    /\ app_password \in {"", "secret"}
    /\ session_state = NoSession
    /\ entered = ""
    /\ clicked = FALSE
    /\ mode = UploadMode
    /\ up1 = FALSE
    /\ up2 = FALSE
    /\ RA_DATA_PATH = Unset
    /\ FORECAST_PATH = Unset
    /\ ran = <<>>
    /\ last_click = <<>>
    /\ inp = Null
    /\ out = Null

\* A widget interaction (or the first page load) starts a rerun of the
\* script, also while a run is under way, which is then abandoned.  The
\* login widgets exist only when a password is configured, the uploaders
\* only in upload mode.
Rerun ==
    /\ pc' = "check_password"
    /\ ran' = <<>>
    /\ \E e \in Passwords, c \in BOOLEAN :
          /\ entered' = IF app_password = "" THEN "" ELSE e
          /\ clicked' = IF app_password = "" THEN FALSE ELSE c
    /\ \E m \in {UploadMode, PathMode}, u1 \in BOOLEAN, u2 \in BOOLEAN :
          /\ mode' = m
          /\ up1' = IF m = UploadMode THEN u1 ELSE FALSE
          /\ up2' = IF m = UploadMode THEN u2 ELSE FALSE
    /\ RA_DATA_PATH' = Unset
    /\ FORECAST_PATH' = Unset
    /\ UNCHANGED <<app_password, session_state, last_click, inp, out>>

\* Lines 14-26: the password gate.
CheckPassword ==
    /\ pc = "check_password"
    /\ ran' = Append(ran, "check_password")
    /\ session_state' =
          IF app_password = "" THEN session_state
          ELSE SignIn(session_state, clicked, entered, app_password)
    /\ last_click' =
          IF app_password # "" /\ clicked THEN <<entered>> ELSE last_click
    /\ pc' = IF check_password(session_state', app_password)
             THEN "sources" ELSE "stopped"
    /\ UNCHANGED <<app_password, entered, clicked, mode, up1, up2,
                   RA_DATA_PATH, FORECAST_PATH, inp, out>>

\* Lines 43-45, 59-68 and 80-88: the paths of the environment, the widgets
\* of the chosen input method and the test that both inputs are there.  In
\* path mode the values of the two text inputs replace the paths.
Sources ==
    /\ pc = "sources"
    /\ ran' = Append(ran, "sources")
    /\ \E p1 \in Paths, p2 \in Paths :
          /\ RA_DATA_PATH' = IF mode = PathMode THEN p1 ELSE EnvPath
          /\ FORECAST_PATH' = IF mode = PathMode THEN p2 ELSE EnvPath
    /\ pc' = IF InputMissing(mode, up1, up2, RA_DATA_PATH', FORECAST_PATH')
             THEN "stopped" ELSE PipelineSteps[1]
    /\ UNCHANGED <<app_password, session_state, entered, clicked, mode, up1,
                   up2, last_click, inp, out>>

\* Lines 69-79 / 89-98 (sheets read), 117-137 (build), 139-162 (filters),
\* 164-184 (KPIs), 186-218 (charts), 220-230 (explorer): straight-line code.
Pipeline ==
    /\ pc \in PipelineSet
    /\ ran' = Append(ran, pc)
    /\ \E i \in DOMAIN PipelineSteps :
          /\ PipelineSteps[i] = pc
          /\ pc' = IF i = Len(PipelineSteps) THEN "done" ELSE PipelineSteps[i + 1]
    /\ UNCHANGED <<app_password, session_state, entered, clicked, mode, up1,
                   up2, RA_DATA_PATH, FORECAST_PATH, last_click, inp, out>>

Next == Rerun \/ CheckPassword \/ Sources \/ Pipeline

Spec == Init /\ [][Next]_vars

-----------------------------------------------------------------------------
(***************************************************************************)
(* The components of the pipeline.  Each has a specification               *)
(* of its own: Init draws the component's input (inp) from a bounded set,  *)
(* one action applies the code to it and stores the result in out.  The   *)
(* session variables stay at their idle values.                            *)
(***************************************************************************)

SessionIdle ==
    /\ app_password = ""
    /\ session_state = NoSession
    /\ entered = ""
    /\ clicked = FALSE
    /\ mode = UploadMode
    /\ up1 = FALSE
    /\ up2 = FALSE
    /\ RA_DATA_PATH = Unset
    /\ FORECAST_PATH = Unset
    /\ ran = <<>>
    /\ last_click = <<>>

\* Sequences over S of length lo..hi, and those without a repeated element.
SeqsOf(S, lo, hi) == UNION {[1..k -> S] : k \in lo..hi}
IsInjective(q) == \A i, j \in DOMAIN q : q[i] = q[j] => i = j
Range(q) == {q[i] : i \in DOMAIN q}

SetMin(S) == CHOOSE x \in S : \A y \in S : x <= y

-----------------------------------------------------------------------------
(***************************************************************************)
(* find_col (lines 100-105).  A string is a sequence of characters, so     *)
(* that lower-casing is computed and two spellings of a header differ.     *)
(***************************************************************************)

UpperToLower ==
    [c \in {"A", "B", "C", "D", "E", "L", "M", "N", "O", "R", "S", "T", "U", "V"} |->
        CASE c = "A" -> "a" [] c = "B" -> "b" [] c = "C" -> "c" [] c = "D" -> "d"
          [] c = "E" -> "e" [] c = "L" -> "l" [] c = "M" -> "m" [] c = "N" -> "n"
          [] c = "O" -> "o" [] c = "R" -> "r" [] c = "S" -> "s" [] c = "T" -> "t"
          [] c = "U" -> "u" [] c = "V" -> "v"]

\* str.lower()
LowerChar(c) == IF c \in DOMAIN UpperToLower THEN UpperToLower[c] ELSE c
Lower(str) == [i \in DOMAIN str |-> LowerChar(str[i])]

\* cols = {str(c).lower(): c for c in df.columns}: a later header replaces an
\* earlier one with the same lower-cased spelling.
ColsDict(columns) ==
    [k \in {Lower(columns[i]) : i \in DOMAIN columns} |->
        columns[CHOOSE i \in DOMAIN columns :
                    /\ Lower(columns[i]) = k
                    /\ \A j \in DOMAIN columns : j > i => Lower(columns[j]) # k]]

\* (a resolver that walks the headers, not the candidates: header order decides)
find_col_by_header_order(columns, candidates) ==
    LET hits == {i \in DOMAIN columns :
                    \E j \in DOMAIN candidates : Lower(candidates[j]) = Lower(columns[i])}
    IN  IF hits = {} THEN Null ELSE Some(columns[SetMin(hits)])

\* for cand in candidates: if cand.lower() in cols: return cols[cand.lower()]
\* return None
find_col(columns, candidates) ==
    LET cols == ColsDict(columns)
        hits == {j \in DOMAIN candidates : Lower(candidates[j]) \in DOMAIN cols}
    IN  IF hits = {} THEN Null ELSE Some(cols[Lower(candidates[SetMin(hits)])])

\* The spellings the headers and candidates of SpecFindCol are drawn from.
FindColNames ==
    {<<"a", "b">>, <<"A", "b">>, <<"A", "B">>, <<"b", "a">>, <<"B", "a">>, <<"a">>}

MaxCols == 2
MaxCands == 2

\* read_excel gives every column a header of its own: no spelling twice.
FindColInputs ==
    {[columns |-> h, candidates |-> c] :
        h \in {q \in SeqsOf(FindColNames, 0, MaxCols) : IsInjective(q)},
        c \in SeqsOf(FindColNames, 0, MaxCands)}

InitFindCol ==
    /\ SessionIdle
    /\ pc = "find_col"
    /\ inp \in FindColInputs
    /\ out = Null

FindCol ==
    /\ pc = "find_col"
    /\ out' = [result |-> find_col(inp.columns, inp.candidates)]
    /\ pc' = "done"
    /\ UNCHANGED <<inp, sessionVars>>

NextFindCol == FindCol

SpecFindCol == InitFindCol /\ [][NextFindCol]_vars

-----------------------------------------------------------------------------
(***************************************************************************)
(* Dates.  A date is a record [y, m, d]; NaT is Null.                      *)
(***************************************************************************)

MkDate(y, m, d) == [y |-> y, m |-> m, d |-> d]

IsLeap(y) == (y % 4 = 0 /\ y % 100 # 0) \/ y % 400 = 0
DaysIn(y, m) ==
    IF m = 2 THEN (IF IsLeap(y) THEN 29 ELSE 28)
    ELSE IF m \in {4, 6, 9, 11} THEN 30 ELSE 31
ValidDate(y, m, d) == m \in 1..12 /\ d \in 1..DaysIn(y, m)

\* d1 <= d2 on timestamps
DateLE(d1, d2) ==
    \/ d1.y < d2.y
    \/ d1.y = d2.y /\ d1.m < d2.m
    \/ d1.y = d2.y /\ d1.m = d2.m /\ d1.d <= d2.d

\* .dt.to_period("M").dt.to_timestamp(): the first day of the month
MonthStart(d) == MkDate(d.y, d.m, 1)

-----------------------------------------------------------------------------
(***************************************************************************)
(* normalize_period (lines 107-115).  The text of a cell is a sequence of  *)
(* tokens: groups of digits, separators, blanks, other text.  The code     *)
(* reads the workbook with dtype_backend="pyarrow", a parameter that       *)
(* pandas has from 2.0 on; from 2.0 on pd.to_datetime without a format     *)
(* infers ONE format, from the first value that is not empty, and parses   *)
(* every value of the call with it (a value of another format is coerced   *)
(* to NaT); only when no format can be inferred from that first value is   *)
(* each value parsed on its own by dateutil.                               *)
(***************************************************************************)

\* The digit groups that occur in the cells, with their values.
DigitsValue ==
    [t \in {"01", "03", "04", "05", "13", "2025"} |->
        CASE t = "01" -> 1 [] t = "03" -> 3 [] t = "04" -> 4 [] t = "05" -> 5
          [] t = "13" -> 13 [] t = "2025" -> 2025]
IsDigits(t) == t \in DOMAIN DigitsValue
IsYear4(t) == IsDigits(t) /\ DigitsValue[t] >= 1000
IsTwoDigits(t) == IsDigits(t) /\ DigitsValue[t] < 100

\* .str.strip()
RECURSIVE LStrip(_)
LStrip(str) ==
    IF str # <<>> /\ Head(str) = " " THEN LStrip(Tail(str)) ELSE str
RECURSIVE RStrip(_)
RStrip(str) ==
    IF str # <<>> /\ str[Len(str)] = " "
    THEN RStrip(SubSeq(str, 1, Len(str) - 1)) ELSE str
Strip(str) == RStrip(LStrip(str))

\* The whole text against a format of three numeric fields and two equal
\* separators (exact match: nothing may precede or follow).
Strptime(str, fmt) ==
    IF /\ Len(str) = 5
       /\ IsDigits(str[1]) /\ IsDigits(str[3]) /\ IsDigits(str[5])
    THEN LET a == DigitsValue[str[1]]
             b == DigitsValue[str[3]]
             c == DigitsValue[str[5]]
         IN  CASE fmt = "%Y-%m-%d" ->
                    IF /\ str[2] = "-" /\ str[4] = "-"
                       /\ IsYear4(str[1]) /\ IsTwoDigits(str[3]) /\ IsTwoDigits(str[5])
                       /\ ValidDate(a, b, c)
                    THEN Some(MkDate(a, b, c)) ELSE Null
               [] fmt = "%d/%m/%Y" ->
                    IF /\ str[2] = "/" /\ str[4] = "/"
                       /\ IsTwoDigits(str[1]) /\ IsTwoDigits(str[3]) /\ IsYear4(str[5])
                       /\ ValidDate(c, b, a)
                    THEN Some(MkDate(c, b, a)) ELSE Null
               [] fmt = "%m/%d/%Y" ->
                    IF /\ str[2] = "/" /\ str[4] = "/"
                       /\ IsTwoDigits(str[1]) /\ IsTwoDigits(str[3]) /\ IsYear4(str[5])
                       /\ ValidDate(c, a, b)
                    THEN Some(MkDate(c, a, b)) ELSE Null
    ELSE Null

\* The parse of one text on its own, day first: of a/b/year the first field
\* is the day when the second can be a month, else the second is the day.
DateutilDayfirst(str) ==
    IF Strptime(str, "%Y-%m-%d") # Null THEN Strptime(str, "%Y-%m-%d")
    ELSE IF /\ Len(str) = 5 /\ str[2] = "/" /\ str[4] = "/"
            /\ IsTwoDigits(str[1]) /\ IsTwoDigits(str[3]) /\ IsYear4(str[5])
         THEN LET a == DigitsValue[str[1]]
                  b == DigitsValue[str[3]]
                  y == DigitsValue[str[5]]
              IN  IF a > 12 \/ b <= 12
                  THEN (IF ValidDate(y, b, a) THEN Some(MkDate(y, b, a)) ELSE Null)
                  ELSE (IF ValidDate(y, a, b) THEN Some(MkDate(y, a, b)) ELSE Null)
         ELSE Null

NoFormat == "none"

\* The format inferred from one text (dayfirst=True): the text is parsed on
\* its own and each of its fields is given the directive whose value it shows.
GuessFormat(str) ==
    IF Strptime(str, "%Y-%m-%d") # Null THEN "%Y-%m-%d"
    ELSE LET d == DateutilDayfirst(str)
         IN  IF d = Null THEN NoFormat
             ELSE IF DigitsValue[str[1]] = Val(d).d THEN "%d/%m/%Y" ELSE "%m/%d/%Y"

\* pd.to_datetime(batch, errors="coerce", dayfirst=True,
\*                infer_datetime_format=True), line 114
LenientBatch(batch) ==
    LET nonEmpty == {i \in DOMAIN batch : batch[i] # <<>>}
    IN  IF nonEmpty = {} THEN [i \in DOMAIN batch |-> Null]
        ELSE LET fmt == GuessFormat(batch[SetMin(nonEmpty)])
             IN  IF fmt = NoFormat
                 THEN [i \in DOMAIN batch |-> DateutilDayfirst(batch[i])]
                 ELSE [i \in DOMAIN batch |-> Strptime(batch[i], fmt)]

\* pd.to_datetime(s, errors="coerce", format="%Y-%m-%d"), line 109
StrictParse(s) == [i \in DOMAIN s |-> Strptime(s[i], "%Y-%m-%d")]

\* The ascending sequence of the elements of a set of numbers.
RECURSIVE SortedSeq(_)
SortedSeq(S) ==
    IF S = {} THEN <<>> ELSE <<SetMin(S)>> \o SortedSeq(S \ {SetMin(S)})

normalize_period(series) ==
    LET s       == [i \in DOMAIN series |-> Strip(series[i])]
        parsed  == StrictParse(s)
        m       == [i \in DOMAIN s |-> parsed[i] # Null]
        rest    == SortedSeq({i \in DOMAIN s : ~m[i]})
        lenient == LenientBatch([k \in DOMAIN rest |-> s[rest[k]]])
    IN  [i \in DOMAIN series |->
            IF m[i] THEN parsed[i]
            ELSE lenient[CHOOSE k \in DOMAIN rest : rest[k] = i]]

\* The cells of SpecPeriod: two ISO dates (one between blanks), three dates
\* written with slashes, a text that is no date, a cell of one blank.
PeriodCells ==
    { <<"2025", "-", "01", "-", "05">>,
      <<" ", "2025", "-", "04", "-", "03", " ">>,
      <<"03", "/", "04", "/", "2025">>,
      <<"13", "/", "04", "/", "2025">>,
      <<"04", "/", "13", "/", "2025">>,
      <<"TBC">>,
      <<" ">> }

MaxSeriesLen == 3

InitPeriod ==
    /\ SessionIdle
    /\ pc = "normalize_period"
    /\ inp \in SeqsOf(PeriodCells, 0, MaxSeriesLen)
    /\ out = Null

NormalizePeriod ==
    /\ pc = "normalize_period"
    /\ out' = [result |-> normalize_period(inp)]
    /\ pc' = "done"
    /\ UNCHANGED <<inp, sessionVars>>

NextPeriod == NormalizePeriod

SpecPeriod == InitPeriod /\ [][NextPeriod]_vars

-----------------------------------------------------------------------------
(***************************************************************************)
(* The fact builder (lines 117-127).  A source table is a record           *)
(* [columns, rows]: the headers, and per row the cells in header order.    *)
(* A cell is [kind, n, text]: a number n ("num"), a text ("text", a        *)
(* sequence of characters) or an empty cell ("empty").                     *)
(***************************************************************************)

NumCell(n) == [kind |-> "num", n |-> n, text |-> <<>>]
TextCell(t) == [kind |-> "text", n |-> 0, text |-> t]
EmptyCell == [kind |-> "empty", n |-> 0, text |-> <<>>]

DigitChars == {"0", "1", "2", "3", "4", "5", "6", "7", "8", "9"}
DigitOf(c) ==
    CASE c = "0" -> 0 [] c = "1" -> 1 [] c = "2" -> 2 [] c = "3" -> 3 [] c = "4" -> 4
      [] c = "5" -> 5 [] c = "6" -> 6 [] c = "7" -> 7 [] c = "8" -> 8 [] c = "9" -> 9

\* The value of a non-empty run of digits.
RECURSIVE DigitsToNat(_)
DigitsToNat(t) ==
    IF Len(t) = 1 THEN DigitOf(t[1])
    ELSE 10 * DigitsToNat(SubSeq(t, 1, Len(t) - 1)) + DigitOf(t[Len(t)])

IsDigitRun(t) == t # <<>> /\ \A i \in DOMAIN t : t[i] \in DigitChars

\* The number a text spells, Null when it spells none.
ParseNumber(t) ==
    IF IsDigitRun(t) THEN Some(DigitsToNat(t))
    ELSE IF t # <<>> /\ t[1] = "-" /\ IsDigitRun(Tail(t)) THEN Some(0 - DigitsToNat(Tail(t)))
    ELSE Null

\* pd.to_numeric(..., errors="coerce") on one cell
to_numeric(cell) ==
    CASE cell.kind = "num" -> Some(cell.n)
      [] cell.kind = "text" -> ParseNumber(cell.text)
      [] OTHER -> Null

\* (a difference that takes a missing operand as zero)
SubFillZero(a, b) ==
    Some((IF a = Null THEN 0 ELSE Val(a)) - (IF b = Null THEN 0 ELSE Val(b)))

\* fact["__Revenue"] - fact["__Cost"] on one row: NaN when an operand is NaN
Sub(a, b) == IF a = Null \/ b = Null THEN Null ELSE Some(Val(a) - Val(b))

AmountCandidates ==
    << <<"A", "m", "o", "u", "n", "t">>, <<"V", "a", "l", "u", "e">>,
       <<"R", "e", "v", "e", "n", "u", "e">> >>
CostCandidates ==
    << <<"C", "o", "s", "t">>, <<"C", "o", "s", "t", "s">>,
       <<"D", "i", "r", "e", "c", "t", " ", "C", "o", "s", "t">> >>

\* The cell of row r under header h.
CellAt(df, r, h) == df.rows[r][CHOOSE j \in DOMAIN df.columns : df.columns[j] = h]

\* pd.to_numeric(fact[c], errors="coerce") if c in fact else np.nan
NumericColumn(df, c) ==
    [r \in DOMAIN df.rows |->
        IF c # Null /\ Val(c) \in Range(df.columns)
        THEN to_numeric(CellAt(df, r, Val(c)))
        ELSE Null]

\* Lines 119-120 and 125-127: the numeric columns of the fact table.
BuildFact(df) ==
    LET c_amount == find_col(df.columns, AmountCandidates)
        c_cost   == find_col(df.columns, CostCandidates)
        revenue  == NumericColumn(df, c_amount)
        cost     == NumericColumn(df, c_cost)
    IN  [r \in DOMAIN df.rows |->
            [Revenue |-> revenue[r], Cost |-> cost[r], GP |-> Sub(revenue[r], cost[r])]]

\* The header rows of the source tables of SpecBuild.
SourceLayouts ==
    { << <<"A", "m", "o", "u", "n", "t">>, <<"C", "o", "s", "t">> >>,
      << <<"C", "O", "S", "T", "S">>, <<"V", "A", "L", "U", "E">> >>,
      << <<"R", "e", "v", "e", "n", "u", "e">>, <<"a", "m", "o", "u", "n", "t">> >>,
      << <<"A", "m", "o", "u", "n", "t">>, <<"N", "o", "t", "e">> >>,
      << <<"c", "o", "s", "t">> >>,
      << <<"N", "o", "t", "e">> >> }

SourceCells ==
    {NumCell(10), NumCell(0), TextCell(<<"7">>), TextCell(<<"-", "3">>),
     TextCell(<<"x">>), EmptyCell}

MaxSourceRows == 2

InitBuild ==
    /\ SessionIdle
    /\ pc = "build"
    /\ \E h \in SourceLayouts :
          \E rows \in SeqsOf([DOMAIN h -> SourceCells], 0, MaxSourceRows) :
              inp = [columns |-> h, rows |-> rows]
    /\ out = Null

Build ==
    /\ pc = "build"
    /\ out' = [fact |-> BuildFact(inp)]
    /\ pc' = "done"
    /\ UNCHANGED <<inp, sessionVars>>

NextBuild == Build

SpecBuild == InitBuild /\ [][NextBuild]_vars

-----------------------------------------------------------------------------
(***************************************************************************)
(* The filters (lines 139-162).  A row of the fact or forecast table is a  *)
(* record with the client key (__Client) and the period (__Period); a      *)
(* filtered table keeps, with each row, its index label (idx).             *)
(***************************************************************************)

\* (a range test that leaves out both ends)
BetweenExclusive(x, lo, hi) ==
    /\ x # Null
    /\ DateLE(lo, Val(x)) /\ lo # Val(x)
    /\ DateLE(Val(x), hi) /\ hi # Val(x)

\* series.between(lo, hi): both ends included, NaT is never between
Between(x, lo, hi) ==
    /\ x # Null
    /\ DateLE(lo, Val(x))
    /\ DateLE(Val(x), hi)

\* fact["__Client"].isin(sel_clients) if sel_clients else True
ClientMask(client, sel_clients) ==
    IF sel_clients # {} THEN client \in sel_clients ELSE TRUE

\* table[mask].copy(): the rows whose mask is True, in order, index kept
ApplyMask(table, sel_clients, sel_date) ==
    LET keep == {i \in DOMAIN table :
                    /\ ClientMask(table[i].Client, sel_clients)
                    /\ Between(table[i].Period, sel_date[1], sel_date[2])}
        order == SortedSeq(keep)
    IN  [k \in DOMAIN order |->
            [idx |-> order[k], Client |-> table[order[k]].Client,
             Period |-> table[order[k]].Period]]

\* sorted([c for c in fact["__Client"].dropna().unique().tolist() if c]),
\* as a set: the options of the "Clients" multiselect
UniqClients(fact) == {fact[i].Client : i \in DOMAIN fact} \ {""}

Periods(table) == {Val(table[i].Period) : i \in {j \in DOMAIN table : table[j].Period # Null}}

DefaultDateMin == MkDate(2024, 1, 1)
DefaultDateMax == MkDate(2025, 12, 31)

\* fact["__Period"].min() / .max(), replaced by the defaults when NaT
DateMin(fact) ==
    IF Periods(fact) = {} THEN DefaultDateMin
    ELSE CHOOSE d \in Periods(fact) : \A e \in Periods(fact) : DateLE(d, e)
DateMax(fact) ==
    IF Periods(fact) = {} THEN DefaultDateMax
    ELSE CHOOSE d \in Periods(fact) : \A e \in Periods(fact) : DateLE(e, d)

\* The periods of the tables of SpecFilter, and the positions the two ends of
\* the date slider are moved to.
FilterDates == {MkDate(2025, 1, 5), MkDate(2025, 2, 10)}
SliderStops == FilterDates \cup {MkDate(2025, 1, 20), DefaultDateMin, DefaultDateMax}

FactRowsOfFilter ==
    {[Client |-> c, Period |-> d] :
        c \in {"A", "B"}, d \in {Null} \cup {Some(x) : x \in FilterDates}}
ForecastRowsOfFilter ==
    {[Client |-> c, Period |-> d] :
        c \in {"A", "C"}, d \in {Null} \cup {Some(x) : x \in FilterDates}}

MaxFactRows == 2
MaxForecastRows == 1

InitFilter ==
    /\ SessionIdle
    /\ pc = "filters"
    /\ inp \in [fact : SeqsOf(FactRowsOfFilter, 0, MaxFactRows),
                forecast : SeqsOf(ForecastRowsOfFilter, 0, MaxForecastRows)]
    /\ out = Null

\* The user picks clients among the options and a range on the slider; the
\* two masks are applied.
Filters ==
    /\ pc = "filters"
    /\ \E sel_clients \in SUBSET UniqClients(inp.fact),
          lo \in SliderStops, hi \in SliderStops :
          /\ DateLE(DateMin(inp.fact), lo)
          /\ DateLE(lo, hi)
          /\ DateLE(hi, DateMax(inp.fact))
          /\ out' = [sel_clients |-> sel_clients,
                     sel_date    |-> <<lo, hi>>,
                     fact_f      |-> ApplyMask(inp.fact, sel_clients, <<lo, hi>>),
                     forecast_f  |-> ApplyMask(inp.forecast, sel_clients, <<lo, hi>>)]
    /\ pc' = "done"
    /\ UNCHANGED <<inp, sessionVars>>

NextFilter == Filters

SpecFilter == InitFilter /\ [][NextFilter]_vars

-----------------------------------------------------------------------------
(***************************************************************************)
(* The KPIs (lines 164-184).  A filtered fact row carries __Revenue,       *)
(* __Cost and __GP, the last computed by the builder (Sub).  Amounts are   *)
(* whole numbers; the margin, a quotient, is an exact fraction [num, den]  *)
(* in lowest terms with den > 0.                                           *)
(***************************************************************************)

Abs(x) == IF x < 0 THEN 0 - x ELSE x

RECURSIVE Gcd(_, _)
Gcd(a, b) == IF b = 0 THEN a ELSE Gcd(b, a % b)

\* n / d, d # 0
Ratio(n, d) ==
    LET g  == Gcd(Abs(n), Abs(d))
        sg == IF d < 0 THEN 0 - 1 ELSE 1
    IN  [num |-> (sg * n) \div g, den |-> (sg * d) \div g]

\* series.sum(skipna=True): NaN is skipped, the sum of nothing is 0
RECURSIVE SumSkipNa(_)
SumSkipNa(col) ==
    IF col = <<>> THEN Some(0)
    ELSE Some((IF Head(col) = Null THEN 0 ELSE Val(Head(col)))
              + Val(SumSkipNa(Tail(col))))

Column(table, field) == [i \in DOMAIN table |-> table[i][field]]

\* (a margin that is undefined when the gross profit, not the revenue, is 0)
MarginGuardOnGp(gp, rev) ==
    IF gp # Null /\ Val(gp) # 0 /\ Val(rev) # 0
    THEN Some(Ratio(Val(gp) * 100, Val(rev))) ELSE Null

\* (gp / rev * 100) if pd.notna(rev) and rev != 0 else np.nan
Margin(gp, rev) ==
    IF rev # Null /\ Val(rev) # 0
    THEN (IF gp = Null THEN Null ELSE Some(Ratio(Val(gp) * 100, Val(rev))))
    ELSE Null

\* The KPI card: "No data" when pd.isna(val), the formatted value otherwise.
Card(val) == [no_data |-> val = Null, value |-> val]

\* Lines 166-184.
KPIs(fact_f) ==
    LET rev    == SumSkipNa(Column(fact_f, "Revenue"))
        cost   == SumSkipNa(Column(fact_f, "Cost"))
        gp     == SumSkipNa(Column(fact_f, "GP"))
        margin == Margin(gp, rev)
    IN  [rev |-> rev, cost |-> cost, gp |-> gp, margin |-> margin,
         cards |-> <<Card(rev), Card(cost), Card(gp), Card(margin)>>]

KpiRows ==
    {[Revenue |-> r, Cost |-> c, GP |-> Sub(r, c)] :
        r \in {Null, Some(0), Some(10), Some(0 - 10)},
        c \in {Null, Some(0), Some(4)}}

MaxKpiRows == 2

InitKpi ==
    /\ SessionIdle
    /\ pc = "kpis"
    /\ inp \in SeqsOf(KpiRows, 0, MaxKpiRows)
    /\ out = Null

Kpi ==
    /\ pc = "kpis"
    /\ out' = KPIs(inp)
    /\ pc' = "done"
    /\ UNCHANGED <<inp, sessionVars>>

NextKpi == Kpi

SpecKpi == InitKpi /\ [][NextKpi]_vars

-----------------------------------------------------------------------------
(***************************************************************************)
(* The top clients (lines 196-197).  Client keys are numbers that stand    *)
(* for the key strings in their sorting order.                             *)
(***************************************************************************)

TopN == 15

ClientsOf(fact_f) == {fact_f[i].Client : i \in DOMAIN fact_f}

RowsOfClient(fact_f, c) == SelectSeq(fact_f, LAMBDA row : row.Client = c)

\* groupby("__Client", as_index=False)["__Revenue"].sum(): one row per
\* client key, in key order, with the sum of its revenues
GroupByClient(fact_f) ==
    LET keys == SortedSeq(ClientsOf(fact_f))
    IN  [k \in DOMAIN keys |->
            [Client  |-> keys[k],
             Revenue |-> Val(SumSkipNa(Column(RowsOfClient(fact_f, keys[k]), "Revenue")))]]

\* (the orders of sort_values(ascending=True))
RECURSIVE AscOrders(_)
AscOrders(S) ==
    IF S = {} THEN {<<>>}
    ELSE UNION {{<<g>> \o t : t \in AscOrders(S \ {g})} :
                g \in {x \in S : \A y \in S : x.Revenue <= y.Revenue}}

\* sort_values("__Revenue", ascending=False): the sort is the default
\* quicksort, which is not stable, so rows of equal revenue come in an order
\* that the numpy / pyarrow build decides: every order is an outcome.
RECURSIVE DescOrders(_)
DescOrders(S) ==
    IF S = {} THEN {<<>>}
    ELSE UNION {{<<g>> \o t : t \in DescOrders(S \ {g})} :
                g \in {x \in S : \A y \in S : y.Revenue <= x.Revenue}}

\* .head(n)
HeadRows(table, n) == SubSeq(table, 1, Min(n, Len(table)))

\* The outcomes of lines 196-197.
TopClientsOutcomes(fact_f) ==
    {HeadRows(t, TopN) : t \in DescOrders(Range(GroupByClient(fact_f)))}

TopRows ==
    {[Client |-> c, Revenue |-> r] : c \in 1..3, r \in {Null, Some(100), Some(300)}}

MaxTopRows == 3

\* A table of TopN + 1 clients, one row each, in falling or rising key
\* order, the revenues all different but for clients v and v + 1.
WideTable(v, falling) ==
    [i \in 1..(TopN + 1) |->
        LET c == IF falling THEN TopN + 2 - i ELSE i
        IN  [Client |-> c, Revenue |-> Some(100 * (IF c = v THEN c + 1 ELSE c))]]

WideTables == {WideTable(v, f) : v \in {1, TopN - 1, TopN}, f \in BOOLEAN}

InitTop ==
    /\ SessionIdle
    /\ pc = "top_clients"
    /\ inp \in SeqsOf(TopRows, 0, MaxTopRows) \cup WideTables
    /\ out = Null

TopClients ==
    /\ pc = "top_clients"
    /\ \E t \in TopClientsOutcomes(inp) : out' = [top_clients |-> t]
    /\ pc' = "done"
    /\ UNCHANGED <<inp, sessionVars>>

NextTop == TopClients

SpecTop == InitTop /\ [][NextTop]_vars

-----------------------------------------------------------------------------
(***************************************************************************)
(* Actual vs forecast (lines 203-212).  A filtered fact row carries        *)
(* __Period and __Revenue, a filtered forecast row __Period and            *)
(* __Forecast (field Amount in both).                                      *)
(***************************************************************************)

DropNaPeriod(table) == SelectSeq(table, LAMBDA row : row.Period # Null)

MonthsOf(table) == {MonthStart(Val(table[i].Period)) : i \in DOMAIN DropNaPeriod(table)}

\* .dropna(subset=["__Period"]).assign(Period=...).groupby("Period")[col].sum():
\* per first-of-month the sum of the amounts, NaN skipped
MonthlySum(table, month) ==
    Val(SumSkipNa(Column(
        SelectSeq(DropNaPeriod(table), LAMBDA row : MonthStart(Val(row.Period)) = month),
        "Amount")))

\* The months of a set in ascending order.
RECURSIVE SortedMonths(_)
SortedMonths(S) ==
    IF S = {} THEN <<>>
    ELSE LET first == CHOOSE d \in S : \A e \in S : DateLE(d, e)
         IN  <<first>> \o SortedMonths(S \ {first})

\* (pd.merge(act, fc, on="Period", how="inner"))
MergeInner(fact_f, forecast_f) ==
    LET act    == MonthsOf(fact_f)
        fc     == MonthsOf(forecast_f)
        months == SortedMonths(act \cap fc)
    IN  [k \in DOMAIN months |->
            [Period   |-> months[k],
             Actual   |-> Some(MonthlySum(fact_f, months[k])),
             Forecast |-> Some(MonthlySum(forecast_f, months[k]))]]

\* pd.merge(act, fc, on="Period", how="outer").sort_values("Period")
MergeOuter(fact_f, forecast_f) ==
    LET act    == MonthsOf(fact_f)
        fc     == MonthsOf(forecast_f)
        months == SortedMonths(act \cup fc)
    IN  [k \in DOMAIN months |->
            [Period   |-> months[k],
             Actual   |-> IF months[k] \in act
                          THEN Some(MonthlySum(fact_f, months[k])) ELSE Null,
             Forecast |-> IF months[k] \in fc
                          THEN Some(MonthlySum(forecast_f, months[k])) ELSE Null]]

\* Lines 203-212: af is built only under
\* "if forecast_f["__Period"].notna().any()"; NotBuilt is af unassigned.
NotBuilt == <<>>
ActualVsForecastTable(fact_f, forecast_f) ==
    IF \E i \in DOMAIN forecast_f : forecast_f[i].Period # Null
    THEN <<MergeOuter(fact_f, forecast_f)>>
    ELSE NotBuilt

\* The filter has dropped the rows without a period: every row has one.
AvfDates == {MkDate(2025, 1, 5), MkDate(2025, 1, 20), MkDate(2025, 2, 10)}
AvfRows ==
    {[Period |-> Some(d), Amount |-> a] : d \in AvfDates, a \in {Null, Some(10)}}

MaxAvfRows == 2

InitAvF ==
    /\ SessionIdle
    /\ pc = "actual_vs_forecast"
    /\ inp \in [fact_f : SeqsOf(AvfRows, 0, MaxAvfRows),
                forecast_f : SeqsOf(AvfRows, 0, MaxAvfRows)]
    /\ out = Null

ActualVsForecast ==
    /\ pc = "actual_vs_forecast"
    /\ out' = [af |-> ActualVsForecastTable(inp.fact_f, inp.forecast_f)]
    /\ pc' = "done"
    /\ UNCHANGED <<inp, sessionVars>>

NextAvF == ActualVsForecast

SpecAvF == InitAvF /\ [][NextAvF]_vars

-----------------------------------------------------------------------------
(***************************************************************************)
(* The claims about the rerun state machine (Spec).                        *)
(***************************************************************************)

\* The input test of this rerun has run.
PastSources == \E i \in DOMAIN ran : ran[i] = "sources"
\* The password gate of this rerun has run, and it stopped the script.
PastGate == Len(ran) >= 1
GateDenied == pc = "stopped" /\ ran = <<"check_password">>
PipelineRan == \E i \in DOMAIN ran : ran[i] \in PipelineSet

\* C9: in every rerun whose required input is missing (upload mode: one of
\* the two uploads absent; path mode: one of the paths empty or nonexistent)
\* the script stops at the input test: no sheet is read and no build,
\* filter, KPI, chart or explorer section runs.
RequiredInputMissing ==
    \/ mode = UploadMode /\ (up1 = FALSE \/ up2 = FALSE)
    \/ mode = PathMode /\ \E p \in {RA_DATA_PATH, FORECAST_PATH} :
                              p = "" \/ p \notin ExistingPaths

C9_MissingInputStops ==
    (PastSources /\ RequiredInputMissing) => (pc = "stopped" /\ ~PipelineRan)

C9_Witness ==
    /\ pc = "stopped"
    /\ PastSources
    /\ mode = UploadMode /\ up1 /\ ~up2

C9_WitnessPath ==
    /\ pc = "stopped"
    /\ PastSources
    /\ mode = PathMode /\ RA_DATA_PATH = "data.xlsx" /\ FORECAST_PATH = "missing.xlsx"

\* C10: with APP_PASSWORD configured, a rerun gets past the gate exactly when
\* the most recent "Sign in" click of the session submitted APP_PASSWORD (no
\* click yet: denied; a rerun without a click keeps the outcome of the latest
\* click; a later wrong password revokes).  With APP_PASSWORD empty the gate
\* never denies.
C10_GateFollowsLatestClick ==
    PastGate =>
        /\ (app_password = "" => ~GateDenied)
        /\ (app_password # "" => (~GateDenied <=> last_click = <<app_password>>))
        /\ (PipelineRan /\ app_password # "" => last_click = <<app_password>>)

\* An access that was granted is revoked by a later wrong password.
C10_Witness ==
    /\ GateDenied
    /\ app_password # ""
    /\ clicked /\ entered # app_password
    /\ session_state = ("_ok" :> FALSE)
    /\ last_click = <<"guess">>

-----------------------------------------------------------------------------
(***************************************************************************)
(* The claims about find_col (SpecFindCol).                                *)
(***************************************************************************)

\* The positions of the candidates that equal some header, case-insensitively.
MatchingCands(columns, candidates) ==
    {j \in DOMAIN candidates :
        \E i \in DOMAIN columns : Lower(columns[i]) = Lower(candidates[j])}

\* C7: find_col returns a header of the table, in its original spelling, that
\* equals case-insensitively the earliest candidate of the list that matches
\* any header (the order of the candidates decides, not that of the headers),
\* and returns None when no candidate matches a header.
C7_EarliestCandidateWins ==
    pc = "done" /\ "result" \in DOMAIN out =>
        LET m == MatchingCands(inp.columns, inp.candidates)
        IN  IF m = {}
            THEN out.result = Null
            ELSE /\ out.result # Null
                 /\ Val(out.result) \in Range(inp.columns)
                 /\ Lower(Val(out.result)) = Lower(inp.candidates[SetMin(m)])

\* Two headers, each matched by a candidate, the later header by the earlier
\* candidate, in a spelling that differs from the candidate's.
C7_Witness ==
    /\ pc = "done" /\ "result" \in DOMAIN out
    /\ inp.columns = <<<<"b", "a">>, <<"A", "B">>>>
    /\ inp.candidates = <<<<"a", "b">>, <<"B", "a">>>>
    /\ out.result = Some(<<"A", "B">>)

-----------------------------------------------------------------------------
(***************************************************************************)
(* The claims about normalize_period (SpecPeriod).                         *)
(***************************************************************************)

\* The lenient day-first parse of one value, taken on its own.
LenientOne(str) == LenientBatch(<<str>>)[1]

\* C8: the output has the length of the input and at each index holds the
\* strict YYYY-MM-DD parse of the value when that succeeds, otherwise the
\* lenient day-first parse of that same value, otherwise null.
C8_StrictThenLenientPerValue ==
    pc = "done" /\ "result" \in DOMAIN out =>
        /\ DOMAIN out.result = DOMAIN inp
        /\ \A i \in DOMAIN inp :
              LET v == Strip(inp[i])
              IN  out.result[i] =
                      IF Strptime(v, "%Y-%m-%d") # Null
                      THEN Strptime(v, "%Y-%m-%d")
                      ELSE LenientOne(v)

\* What does hold of normalize_period: the output is index-aligned with the
\* input, a value that parses strictly yields exactly that date, and the
\* other values yield what the one lenient call returns for them.
PeriodAlignedStrictFirst ==
    pc = "done" /\ "result" \in DOMAIN out =>
        /\ DOMAIN out.result = DOMAIN inp
        /\ \A i \in DOMAIN inp :
              LET v == Strip(inp[i])
              IN  /\ Strptime(v, "%Y-%m-%d") # Null
                        => out.result[i] = Strptime(v, "%Y-%m-%d")
                  /\ out.result[i] # Null /\ Strptime(v, "%Y-%m-%d") = Null
                        => out.result[i] \in {Strptime(v, "%d/%m/%Y"),
                                              Strptime(v, "%m/%d/%Y")}

-----------------------------------------------------------------------------
(***************************************************************************)
(* The claims about the fact builder (SpecBuild).                          *)
(***************************************************************************)

\* The header a candidate list resolves to by the rule of the interface
\* (first candidate, in order, that some header spells in any case), as a
\* set: empty when the column is absent.
Resolved(columns, candidates) ==
    LET m == MatchingCands(columns, candidates)
    IN  IF m = {} THEN {}
        ELSE {h \in Range(columns) : Lower(h) = Lower(candidates[SetMin(m)])}

\* A cell that holds no number: empty, or a text that spells none.
NotNumeric(cell) ==
    \/ cell.kind = "empty"
    \/ cell.kind = "text" /\ ParseNumber(cell.text) = Null

\* The cells of row r that feed the revenue (or the cost).
OperandCells(df, r, candidates) ==
    {CellAt(df, r, h) : h \in Resolved(df.columns, candidates)}

\* C5: on every fact row grossProfit is null whenever revenue or cost is null
\* (the amount or cost column is not resolved, or the cell holds no number)
\* and is revenue - cost otherwise; a null operand is never taken as zero.
C5_GrossProfitNullPropagates ==
    pc = "done" /\ "fact" \in DOMAIN out =>
        /\ DOMAIN out.fact = DOMAIN inp.rows
        /\ \A r \in DOMAIN inp.rows :
              LET amounts == OperandCells(inp, r, AmountCandidates)
                  costs   == OperandCells(inp, r, CostCandidates)
                  row     == out.fact[r]
                  missing == \/ amounts = {} \/ costs = {}
                             \/ \E c \in amounts \cup costs : NotNumeric(c)
              IN  /\ (amounts = {} \/ \E c \in amounts : NotNumeric(c)) => row.Revenue = Null
                  /\ (costs = {} \/ \E c \in costs : NotNumeric(c)) => row.Cost = Null
                  /\ missing <=> row.GP = Null
                  /\ ~missing => row.GP = Some(Val(row.Revenue) - Val(row.Cost))

\* A table with both columns, one row with both numbers (one of them a text)
\* and one row whose cost is no number while its revenue is.
C5_Witness ==
    /\ pc = "done" /\ "fact" \in DOMAIN out
    /\ Len(out.fact) = 2
    /\ out.fact[1] = [Revenue |-> Some(10), Cost |-> Some(7), GP |-> Some(3)]
    /\ out.fact[2].Revenue = Some(10) /\ out.fact[2].Cost = Null /\ out.fact[2].GP = Null

-----------------------------------------------------------------------------
(***************************************************************************)
(* The claims about the filters (SpecFilter).                              *)
(***************************************************************************)

\* The day of a date as one number, for comparing.
DateKey(d) == d.y * 10000 + d.m * 100 + d.d

\* A record is to be kept: its client is selected (or nothing is selected)
\* and its period is there and within the range, ends included.
Kept(row, sel, range) ==
    /\ sel = {} \/ row.Client \in sel
    /\ row.Period # Null
    /\ DateKey(range[1]) <= DateKey(Val(row.Period))
    /\ DateKey(Val(row.Period)) <= DateKey(range[2])

FilteredAsSpecified(table, filtered, sel, range) ==
    /\ {filtered[k].idx : k \in DOMAIN filtered} = {i \in DOMAIN table : Kept(table[i], sel, range)}
    /\ \A k \in DOMAIN filtered :
          /\ filtered[k].Client = table[filtered[k].idx].Client
          /\ filtered[k].Period = table[filtered[k].idx].Period
          /\ \A l \in DOMAIN filtered : k < l => filtered[k].idx < filtered[l].idx
    /\ sel # {} /\ (\A i \in DOMAIN table : table[i].Client \notin sel) => filtered = <<>>
    /\ \A k \in DOMAIN filtered : filtered[k].Period # Null

\* C4: the filter keeps a record exactly when (no client is selected or its
\* client is selected) and its period is non-null and within
\* [rangeStart, rangeEnd], both ends included; so an empty selection keeps
\* every row that passes the date filter, a selection with none of the
\* table's clients keeps no row, a null period is never kept.  For the fact
\* and for the forecast table.
C4_FilterKeepsExactly ==
    pc = "done" /\ "fact_f" \in DOMAIN out =>
        /\ FilteredAsSpecified(inp.fact, out.fact_f, out.sel_clients, out.sel_date)
        /\ FilteredAsSpecified(inp.forecast, out.forecast_f, out.sel_clients, out.sel_date)

\* A selection that holds none of the forecast's clients empties the forecast
\* although its row is in the range, and keeps the fact row that lies on the
\* start of the range.
C4_Witness ==
    /\ pc = "done" /\ "fact_f" \in DOMAIN out
    /\ out.sel_clients = {"B"}
    /\ inp.forecast = <<[Client |-> "C", Period |-> Some(MkDate(2025, 1, 5))]>>
    /\ out.forecast_f = <<>>
    /\ out.sel_date = <<MkDate(2025, 1, 5), MkDate(2025, 1, 20)>>
    /\ Len(inp.fact) = 2 /\ Len(out.fact_f) = 1
    /\ out.fact_f[1].Period = Some(MkDate(2025, 1, 5))

\* An empty selection keeps the rows of every client.
C4_WitnessEmptySelection ==
    /\ pc = "done" /\ "fact_f" \in DOMAIN out
    /\ out.sel_clients = {}
    /\ {out.fact_f[k].Client : k \in DOMAIN out.fact_f} = {"A", "B"}
    /\ Len(out.forecast_f) = 1

-----------------------------------------------------------------------------
(***************************************************************************)
(* The claims about the KPIs (SpecKpi).                                    *)
(***************************************************************************)

KpiDone == pc = "done" /\ "cards" \in DOMAIN out

\* C1: on an empty filtered fact set all four KPIs (revenue, cost, gross
\* profit, margin) are "no data" (null); none is the number 0.
C1_EmptyIsNoData ==
    KpiDone /\ inp = <<>> =>
        /\ out.rev = Null /\ out.cost = Null /\ out.gp = Null /\ out.margin = Null
        /\ \A k \in DOMAIN out.cards : out.cards[k].no_data

\* What the code does on the empty set: the three sums are 0 and are shown
\* as numbers, the margin alone is "no data".
EmptyKpisAreZero ==
    KpiDone /\ inp = <<>> =>
        /\ out.rev = Some(0) /\ out.cost = Some(0) /\ out.gp = Some(0)
        /\ out.margin = Null
        /\ <<out.cards[1].no_data, out.cards[2].no_data,
             out.cards[3].no_data, out.cards[4].no_data>> = <<FALSE, FALSE, FALSE, TRUE>>

\* The sum of f over a set of row numbers.
RECURSIVE SumOver(_, _)
SumOver(I, f) ==
    IF I = {} THEN 0
    ELSE LET i == CHOOSE x \in I : TRUE IN f[i] + SumOver(I \ {i}, f)

RevenueTotal(rows) ==
    SumOver({i \in DOMAIN rows : rows[i].Revenue # Null},
            [i \in DOMAIN rows |-> IF rows[i].Revenue # Null THEN Val(rows[i].Revenue) ELSE 0])
CostTotal(rows) ==
    SumOver({i \in DOMAIN rows : rows[i].Cost # Null},
            [i \in DOMAIN rows |-> IF rows[i].Cost # Null THEN Val(rows[i].Cost) ELSE 0])
\* The gross profit of the rows that have one: revenue and cost both there.
GrossProfitTotal(rows) ==
    SumOver({i \in DOMAIN rows : rows[i].Revenue # Null /\ rows[i].Cost # Null},
            [i \in DOMAIN rows |->
                IF rows[i].Revenue # Null /\ rows[i].Cost # Null
                THEN Val(rows[i].Revenue) - Val(rows[i].Cost) ELSE 0])

\* C6: the margin is null whenever the summed revenue is exactly 0, whatever
\* the cost and gross-profit sums are; when the summed revenue is not 0 the
\* margin is grossProfitSum / revenueSum * 100.
C6_MarginNullIffRevenueZero ==
    KpiDone =>
        /\ RevenueTotal(inp) = 0 => out.margin = Null
        /\ RevenueTotal(inp) # 0 =>
              /\ out.margin # Null
              /\ Val(out.margin).den > 0
              /\ Val(out.margin).num * RevenueTotal(inp)
                    = GrossProfitTotal(inp) * 100 * Val(out.margin).den

\* Revenues 10 and -10 sum to 0 while the costs and the gross profits do not.
C6_Witness ==
    /\ KpiDone
    /\ Len(inp) = 2
    /\ RevenueTotal(inp) = 0
    /\ CostTotal(inp) = 8
    /\ GrossProfitTotal(inp) = 0 - 8
    /\ out.margin = Null
    /\ out.gp = Some(0 - 8)

\* A margin that is a number: 6 / 10 * 100 = 60.
C6_WitnessDefined ==
    /\ KpiDone
    /\ RevenueTotal(inp) = 10
    /\ out.margin = Some([num |-> 60, den |-> 1])

-----------------------------------------------------------------------------
(***************************************************************************)
(* The claims about the top clients (SpecTop).                             *)
(***************************************************************************)

TopDone == pc = "done" /\ "top_clients" \in DOMAIN out

\* The row number at which a client first appears in the input.
FirstAppears(rows, c) == SetMin({i \in DOMAIN rows : rows[i].Client = c})

ClientRevenue(rows, c) ==
    SumOver({i \in DOMAIN rows : rows[i].Client = c /\ rows[i].Revenue # Null},
            [i \in DOMAIN rows |-> IF rows[i].Revenue # Null THEN Val(rows[i].Revenue) ELSE 0])

\* One row per client of the input, with the client's summed revenue, no
\* client twice, at most TopN rows, none of the clients left out ahead of a
\* client kept.
GroupsSummedAndCut(rows, top) ==
    /\ \A k \in DOMAIN top :
          /\ top[k].Client \in ClientsOf(rows)
          /\ top[k].Revenue = ClientRevenue(rows, top[k].Client)
    /\ \A k, l \in DOMAIN top : top[k].Client = top[l].Client => k = l
    /\ Len(top) = Min(TopN, Cardinality(ClientsOf(rows)))
    /\ \A c \in ClientsOf(rows) :
          c \notin {top[k].Client : k \in DOMAIN top}
              => \A k \in DOMAIN top : ClientRevenue(rows, c) <= top[k].Revenue

\* C2 as stated: groups by client, sums the revenue, orders by summed revenue
\* descending, clients of equal summed revenue in the order of their first
\* appearance in the input rows, and keeps the first 15 groups at most.
C2_TiesByFirstAppearance ==
    TopDone =>
        /\ GroupsSummedAndCut(inp, out.top_clients)
        /\ \A k, l \in DOMAIN out.top_clients :
              k < l =>
                  \/ out.top_clients[k].Revenue > out.top_clients[l].Revenue
                  \/ /\ out.top_clients[k].Revenue = out.top_clients[l].Revenue
                     /\ FirstAppears(inp, out.top_clients[k].Client)
                            < FirstAppears(inp, out.top_clients[l].Client)

\* C2 as amended: the same without an order among clients of equal revenue.
C2_SortedDescendingTopN ==
    TopDone =>
        /\ GroupsSummedAndCut(inp, out.top_clients)
        /\ \A k, l \in DOMAIN out.top_clients :
              k < l => out.top_clients[k].Revenue >= out.top_clients[l].Revenue

\* Sixteen clients: the fifteen of highest revenue are kept, in falling order.
C2_Witness ==
    /\ TopDone
    /\ Cardinality(ClientsOf(inp)) = TopN + 1
    /\ Len(out.top_clients) = TopN
    /\ out.top_clients[1].Revenue = 100 * (TopN + 1)
    /\ out.top_clients[TopN].Revenue = 200

\* Two clients of equal summed revenue, each summed over two rows or more.
C2_WitnessTie ==
    /\ TopDone
    /\ Len(inp) = 3
    /\ Len(out.top_clients) = 2
    /\ out.top_clients[1].Revenue = 300
    /\ out.top_clients[2].Revenue = 300

-----------------------------------------------------------------------------
(***************************************************************************)
(* The claims about actual vs forecast (SpecAvF).                          *)
(***************************************************************************)

AvfDone == pc = "done" /\ "af" \in DOMAIN out

\* The first-of-month dates on a side, as numbers.
MonthKeys(table) ==
    {Val(table[i].Period).y * 100 + Val(table[i].Period).m :
        i \in {j \in DOMAIN table : table[j].Period # Null}}
KeyOfMonth(d) == d.y * 100 + d.m

AmountOfMonth(table, key) ==
    SumOver({i \in DOMAIN table :
                /\ table[i].Period # Null
                /\ KeyOfMonth(Val(table[i].Period)) = key
                /\ table[i].Amount # Null},
            [i \in DOMAIN table |-> IF table[i].Amount # Null THEN Val(table[i].Amount) ELSE 0])

\* rows is the full outer join on first-of-month of the monthly sums of the
\* two sides, in ascending month order.
IsOuterJoin(fact_f, forecast_f, rows) ==
    LET act == MonthKeys(fact_f)
        fc  == MonthKeys(forecast_f)
    IN  /\ \A key \in act \cup fc :
              Cardinality({k \in DOMAIN rows : KeyOfMonth(rows[k].Period) = key}) = 1
        /\ \A k \in DOMAIN rows :
              LET key == KeyOfMonth(rows[k].Period)
              IN  /\ rows[k].Period.d = 1
                  /\ key \in act \cup fc
                  /\ rows[k].Actual =
                        IF key \in act THEN Some(AmountOfMonth(fact_f, key)) ELSE Null
                  /\ rows[k].Forecast =
                        IF key \in fc THEN Some(AmountOfMonth(forecast_f, key)) ELSE Null
        /\ \A k, l \in DOMAIN rows :
              k < l => KeyOfMonth(rows[k].Period) < KeyOfMonth(rows[l].Period)

\* C3 as stated: for every pair of filtered fact and forecast sets the table
\* is the full outer join (every month of either side once, actual null for
\* a month of the forecast only, forecast null for a month of the actuals
\* only, months ascending).
C3_OuterJoinForEveryPair ==
    AvfDone =>
        IsOuterJoin(inp.fact_f, inp.forecast_f,
                    IF out.af = NotBuilt THEN <<>> ELSE Val(out.af))

\* C3 as amended: the same for every pair whose forecast set has a row.
C3_OuterJoinWhenForecastPresent ==
    AvfDone /\ inp.forecast_f # <<>> =>
        /\ out.af # NotBuilt
        /\ IsOuterJoin(inp.fact_f, inp.forecast_f, Val(out.af))

\* January on both sides, February in the forecast only.
C3_Witness ==
    /\ AvfDone
    /\ out.af # NotBuilt
    /\ Val(out.af) =
          << [Period |-> MkDate(2025, 1, 1), Actual |-> Some(20), Forecast |-> Some(10)],
             [Period |-> MkDate(2025, 2, 1), Actual |-> Null, Forecast |-> Some(10)] >>

\* February in the actuals only.
C3_WitnessActualOnly ==
    /\ AvfDone
    /\ out.af # NotBuilt
    /\ Len(Val(out.af)) = 2
    /\ Val(out.af)[2] = [Period |-> MkDate(2025, 2, 1), Actual |-> Some(0), Forecast |-> Null]

=============================================================================
